---- MODULE Spec2Model ----
(***************************************************************************)
(* lookdevtools.maya.surfacing_projects: surfacing projects kept in the    *)
(* host scene graph.  The state is the scene (nodes, their names, marker   *)
(* attributes, set membership, partition connections) and the outcome of   *)
(* the last call.  Strings are sequences of one-character strings, so that *)
(* str.replace, "%s_geo" % x and name clashes are computed, not assumed.   *)
(***************************************************************************)
EXTENDS Integers, Sequences, FiniteSets, TLC

\* ------------------------------------------------------------------ bounds
MaxRoots == 2        \* root nodes a scene may hold
MaxPartitions == 2   \* marked partition nodes a scene may hold
MaxProjects == 1     \* projects
MaxObjects == 2      \* objects, over all projects
MaxTransforms == 2   \* transforms the artist makes
MaxMerged == 1       \* meshes polyUnite makes
MaxDeletes == 1      \* calls of delete_project
MaxFiles == 2        \* parsed files given to one import_textures
MaxFileNodes == 2    \* file nodes a scene may hold

\* node handles, one range for each kind of node; a listing is in handle order
RootIds == 1..MaxRoots
PartitionIds == (MaxRoots + 1)..(MaxRoots + MaxPartitions)
ProjectIds == (MaxRoots + MaxPartitions + 1)..(MaxRoots + MaxPartitions + MaxProjects)
ObjectIds ==
  (MaxRoots + MaxPartitions + MaxProjects + 1)
    ..(MaxRoots + MaxPartitions + MaxProjects + MaxObjects)
TransformIds ==
  (MaxRoots + MaxPartitions + MaxProjects + MaxObjects + 1)
    ..(MaxRoots + MaxPartitions + MaxProjects + MaxObjects + MaxTransforms + MaxMerged)
Node == RootIds \cup PartitionIds \cup ProjectIds \cup ObjectIds \cup TransformIds
NoNode == 0

\* ----------------------------------------------------------------- strings
STR_root == <<"s","u","r","f","a","c","i","n","g","_","r","o","o","t">>
STR_partition == <<"s","u","r","f","a","c","i","n","g","_","p","a","r","t","i","t","i","o","n">>
STR_project == <<"p","r","o","j","e","c","t">>
STR_object == <<"o","b","j","e","c","t">>
STR_default_object == <<"d","e","f","a","u","l","t","_","o","b","j","e","c","t">>
STR_geo == <<"_","g","e","o">>
STR_abc == <<".","a","b","c">>
STR_slash == <<"/">>
STR_empty == << >>

\* marker attribute names (lookdevtools.common.constants, used by name here)
ATTR_SURFACING_ROOT == "surfacing_root"
ATTR_SURFACING_PROJECT == "surfacing_project"
ATTR_SURFACING_OBJECT == "surfacing_object"
ATTR_SURFACING_PARTITION == "surfacing_partition"

invalid_character == "_"

DigitChars == <<"1","2","3","4","5","6","7","8","9">>
IsDigit(c) == c \in {"0","1","2","3","4","5","6","7","8","9"}

Min(S) == CHOOSE x \in S : \A y \in S : x <= y

\* the nodes of S as a sequence in the host's listing order (ascending handle)
RECURSIVE SetToSeq(_)
SetToSeq(S) ==
  IF S = {} THEN << >>
  ELSE LET m == Min(S) IN <<m>> \o SetToSeq(S \ {m})

\* a replace that drops the first occurrence only
ReplaceFirst(str, old) ==
  IF ~(\E i \in 1..Len(str) : str[i] = old) THEN str
  ELSE LET k == CHOOSE i \in 1..Len(str) :
                  str[i] = old /\ \A j \in 1..(i - 1) : str[j] # old
       IN SubSeq(str, 1, k - 1) \o SubSeq(str, k + 1, Len(str))

\* str.replace(old, ''): every occurrence of the character is dropped
RECURSIVE ReplaceAll(_, _)
ReplaceAll(str, old) ==
  IF str = << >> THEN << >>
  ELSE IF Head(str) = old THEN ReplaceAll(Tail(str), old)
       ELSE <<Head(str)>> \o ReplaceAll(Tail(str), old)

Contains(str, c) == \E i \in 1..Len(str) : str[i] = c

RECURSIVE StripDigits(_)
StripDigits(str) ==
  IF str = << >> THEN << >>
  ELSE IF IsDigit(str[Len(str)]) THEN StripDigits(SubSeq(str, 1, Len(str) - 1))
       ELSE str

\* ------------------------------------------------------------------- scene
AttrNames == {ATTR_SURFACING_ROOT, ATTR_SURFACING_PROJECT, ATTR_SURFACING_OBJECT,
              ATTR_SURFACING_PARTITION}
NoAttrs == {}
NoVals == [a \in AttrNames |-> << >>]

EmptyScene ==
  [type    |-> [n \in Node |-> "none"],
   name    |-> [n \in Node |-> << >>],
   attrs   |-> [n \in Node |-> NoAttrs],
   vals    |-> [n \in Node |-> NoVals],
   members |-> [n \in Node |-> {}],
   sets    |-> [n \in Node |-> << >>],
   hasMesh |-> [n \in Node |-> FALSE],
   inWorld |-> [n \in Node |-> FALSE]]

Exists(s, n) == s.type[n] # "none"
Free(s, ids) == {n \in ids : s.type[n] = "none"}
HasAttr(s, n, a) == a \in s.attrs[n]
GetAttr(s, n, a) == s.vals[n][a]
Ls(s, t) == {n \in Node : s.type[n] = t}
NamesInUse(s, except) == {s.name[n] : n \in {m \in Node : Exists(s, m) /\ m # except}}

\* the host keeps node names unique: a taken name gets the first free number
UniqueName(s, except, base) ==
  IF base \notin NamesInUse(s, except) THEN base
  ELSE LET stem == StripDigits(base)
           k == Min({i \in 1..Len(DigitChars) :
                       (stem \o <<DigitChars[i]>>) \notin NamesInUse(s, except)})
       IN stem \o <<DigitChars[k]>>

\* pm.createNode(type, name=...) on the free handle n
CreateNode(s, n, t, nm) ==
  [s EXCEPT !.type[n] = t,
            !.name[n] = UniqueName(s, n, nm),
            !.attrs[n] = NoAttrs,
            !.vals[n] = NoVals,
            !.members[n] = {},
            !.sets[n] = << >>,
            !.hasMesh[n] = FALSE,
            !.inWorld[n] = (t = "transform")]

\* node.setAttr(attr, value, force=True): the attribute is added when missing
SetAttrForce(s, n, a, v) ==
  [s EXCEPT !.attrs[n] = @ \cup {a}, !.vals[n][a] = v]

\* set.add(member)
AddToSet(s, set, m) == [s EXCEPT !.members[set] = @ \cup {m}]

\* pm.delete(nodes): the nodes leave every set and every connection
DeleteNodes(s, D) ==
  [type    |-> [n \in Node |-> IF n \in D THEN "none" ELSE s.type[n]],
   name    |-> [n \in Node |-> IF n \in D THEN << >> ELSE s.name[n]],
   attrs   |-> [n \in Node |-> IF n \in D THEN NoAttrs ELSE s.attrs[n]],
   vals    |-> [n \in Node |-> IF n \in D THEN NoVals ELSE s.vals[n]],
   members |-> [n \in Node |-> IF n \in D THEN {} ELSE s.members[n] \ D],
   sets    |-> [n \in Node |-> IF n \in D THEN << >>
                               ELSE SelectSeq(s.sets[n], LAMBDA x : x \notin D)],
   hasMesh |-> [n \in Node |-> IF n \in D THEN FALSE ELSE s.hasMesh[n]],
   inWorld |-> [n \in Node |-> IF n \in D THEN FALSE ELSE s.inWorld[n]]]

\* the result of a call: the scene it leaves, whether it returned (ok) or
\* raised, and the node it returned (NoNode: nothing, or the falsy sentinel)
Ok(s, r) == [s |-> s, ok |-> TRUE, ret |-> r]
Raise(s) == [s |-> s, ok |-> FALSE, ret |-> NoNode]

\* a statement after a call, whose result is r: it runs when the call returned
\* (the then_ definitions below), an exception ends the function
Returning(r, v) == IF r.ok THEN Ok(r.s, v) ELSE r

\* ------------------------------------------------------------- root lookup
Roots(s) == {n \in Ls(s, "objectSet") : HasAttr(s, n, ATTR_SURFACING_ROOT)}

create_project_root_node(s) ==
  LET n == Min(Free(s, RootIds))
  IN Ok(SetAttrForce(CreateNode(s, n, "objectSet", STR_root), n,
                     ATTR_SURFACING_ROOT, STR_empty), n)

\* get_project_root taking the first root when there are several
get_project_root_first(s) ==
  LET objSetLs == Roots(s)
  IN IF Cardinality(objSetLs) = 0 THEN create_project_root_node(s)
     ELSE Ok(s, Min(objSetLs))

\* get_project_root handing back nothing for the one root it found
get_project_root_none(s) ==
  LET objSetLs == Roots(s)
  IN IF Cardinality(objSetLs) = 0 THEN create_project_root_node(s)
     ELSE IF Cardinality(objSetLs) > 1 THEN Raise(s)
     ELSE Ok(s, NoNode)

get_project_root(s) ==
  LET objSetLs == Roots(s)
  IN IF Cardinality(objSetLs) = 0 THEN create_project_root_node(s)
     ELSE IF Cardinality(objSetLs) > 1 THEN Raise(s)
     ELSE Ok(s, Min(objSetLs))

\* a PyNode is truthy when its node exists
Truthy(s, n) == n # NoNode /\ Exists(s, n)

\* `if not get_project_root()`, r being the result of that call
then_create_or_get(r) ==
  IF ~r.ok THEN r
  ELSE IF ~Truthy(r.s, r.ret) THEN create_project_root_node(r.s)
  ELSE get_project_root(r.s)

create_project_root(s) == then_create_or_get(get_project_root(s))

get_projects(s) == {n \in Ls(s, "objectSet") : HasAttr(s, n, ATTR_SURFACING_PROJECT)}

is_project(s, project) == HasAttr(s, project, ATTR_SURFACING_PROJECT)

is_surfacing_object(s, o) == HasAttr(s, o, ATTR_SURFACING_OBJECT)

Objects(s) == {n \in Ls(s, "objectSet") : HasAttr(s, n, ATTR_SURFACING_OBJECT)}

get_objects(s, project) ==
  IF is_project(s, project) THEN s.members[project] ELSE {}

\* -------------------------------------------------------- projects, objects
\* create_object: a new set carrying the object marker, added to `project`
create_object(s, project, nm) ==
  LET n == Min(Free(s, ObjectIds))
      name == IF nm = << >> THEN STR_object ELSE nm
      s1 == CreateNode(s, n, "objectSet", name)
      s2 == SetAttrForce(s1, n, ATTR_SURFACING_OBJECT, STR_empty)
  IN Ok(AddToSet(s2, project, n), NoNode)

\* connectAttr("<object>.partition", partition.sets, na=True) for each object:
\* only a set has a .partition plug, anything else makes the host raise
RECURSIVE ConnectEach(_, _, _)
ConnectEach(s, part, objs) ==
  IF objs = << >> THEN Ok(s, NoNode)
  ELSE IF s.type[Head(objs)] # "objectSet" THEN Raise(s)
  ELSE ConnectEach([s EXCEPT !.sets[part] = Append(@, Head(objs))], part, Tail(objs))

RECURSIVE ObjectsInOrder(_, _)
ObjectsInOrder(s, projects) ==
  IF projects = << >> THEN << >>
  ELSE SetToSeq(get_objects(s, Head(projects))) \o ObjectsInOrder(s, Tail(projects))

MarkedPartitions(s) ==
  {n \in Ls(s, "partition") : HasAttr(s, n, ATTR_SURFACING_PARTITION)}

\* update_partition deleting the first of the marked partitions only
update_partition_first(s) ==
  LET partitions == MarkedPartitions(s)
      s1 == DeleteNodes(s, IF partitions = {} THEN {} ELSE {Min(partitions)})
      n == Min(Free(s1, PartitionIds))
      s2 == CreateNode(s1, n, "partition", STR_partition)
      s3 == SetAttrForce(s2, n, ATTR_SURFACING_PARTITION, STR_empty)
  IN ConnectEach(s3, n, ObjectsInOrder(s3, SetToSeq(get_projects(s3))))

update_partition(s) ==
  LET partitions == MarkedPartitions(s)
      s1 == DeleteNodes(s, partitions)
      n == Min(Free(s1, PartitionIds))
      s2 == CreateNode(s1, n, "partition", STR_partition)
      s3 == SetAttrForce(s2, n, ATTR_SURFACING_PARTITION, STR_empty)
  IN ConnectEach(s3, n, ObjectsInOrder(s3, SetToSeq(get_projects(s3))))

\* create_project, one host call sequence at a time
cp_node(s, nm) ==
  LET n == Min(Free(s, ProjectIds))
      name == IF nm = << >> THEN STR_project ELSE nm
      s1 == CreateNode(s, n, "objectSet", name)
  IN Ok(SetAttrForce(s1, n, ATTR_SURFACING_PROJECT, STR_empty), n)

cp_object(s, project) == create_object(s, project, << >>)

\* get_project_root().add(project), r being the result of get_project_root()
then_add(r, project) ==
  IF r.ok THEN Ok(AddToSet(r.s, r.ret, project), project) ELSE r

cp_root(s, project) == then_add(get_project_root(s), project)

cp_partition(s, project) == Returning(update_partition(s), project)

\* the rest of create_project after the project node, and after the root
then_cp_partition(r) == IF r.ok THEN cp_partition(r.s, r.ret) ELSE r

then_cp_object(r) == then_cp_partition(cp_root(cp_object(r.s, r.ret).s, r.ret))

create_project(s, nm) == then_cp_object(cp_node(s, nm))

\* delete_project leaving the members of the project behind
delete_project_only(s, project) ==
  IF is_project(s, project) THEN Ok(DeleteNodes(s, {project}), NoNode)
  ELSE Ok(s, NoNode)

\* delete_project: the members first, then the project itself
delete_project(s, project) ==
  IF is_project(s, project)
  THEN Ok(DeleteNodes(DeleteNodes(s, s.members[project]), {project}), NoNode)
  ELSE Ok(s, NoNode)

\* ---------------------------------------------------------------- validation
remove_invalid_members(s) ==
  LET r == get_project_root(s)
  IN IF ~r.ok THEN r
     ELSE LET s0 == r.s
              root == r.ret
              projects == get_projects(s0)
              m1 == [s0.members EXCEPT ![root] = {p \in @ : s0.type[p] = "objectSet"}]
              m2 == [n \in Node |->
                       IF n \in projects
                       THEN {o \in m1[n] : s0.type[o] = "objectSet"}
                       ELSE m1[n]]
              objs == UNION {{o \in m1[p] : s0.type[o] = "objectSet"} : p \in projects}
              m3 == [n \in Node |->
                       IF n \in objs
                       THEN {m \in m2[n] : s0.type[m] = "transform" /\ s0.hasMesh[m]}
                       ELSE m2[n]]
          IN Ok([s0 EXCEPT !.members = m3], NoNode)

\* node.rename(new): no legal character left makes the host raise
RECURSIVE RenameEach(_, _)
RenameEach(s, nodes) ==
  IF nodes = << >> THEN Ok(s, NoNode)
  ELSE LET n == Head(nodes)
           new == ReplaceAll(s.name[n], invalid_character)
       IN IF ~Contains(s.name[n], invalid_character) THEN RenameEach(s, Tail(nodes))
          ELSE IF new = << >> THEN Raise(s)
          ELSE RenameEach([s EXCEPT !.name[n] = UniqueName(s, n, new)], Tail(nodes))

RECURSIVE RenameOrder(_, _)
RenameOrder(s, projects) ==
  IF projects = << >> THEN << >>
  ELSE <<Head(projects)>> \o SetToSeq(get_objects(s, Head(projects)))
         \o RenameOrder(s, Tail(projects))

then_rename(r) ==
  IF r.ok THEN RenameEach(r.s, RenameOrder(r.s, SetToSeq(get_projects(r.s)))) ELSE r

remove_invalid_characters(s) == then_rename(get_project_root(s))

\* the steps of validate_scene, each after the one before
then_remove_invalid_characters(r) == IF r.ok THEN remove_invalid_characters(r.s) ELSE r
then_remove_invalid_members(r) == IF r.ok THEN remove_invalid_members(r.s) ELSE r
then_update_partition(r) == IF r.ok THEN update_partition(r.s) ELSE r

RECURSIVE StampMembers(_, _, _, _)
StampMembers(s, project, obj, ms) ==
  IF ms = << >> THEN s
  ELSE LET m == Head(ms)
           s1 == SetAttrForce(s, m, ATTR_SURFACING_PROJECT, s.name[project])
           s2 == SetAttrForce(s1, m, ATTR_SURFACING_OBJECT, s.name[obj])
       IN StampMembers(s2, project, obj, Tail(ms))

\* setAttr without force: the attribute must be there
RECURSIVE StampObjects(_, _, _)
StampObjects(s, project, objs) ==
  IF objs = << >> THEN Ok(s, NoNode)
  ELSE LET o == Head(objs)
       IN IF ~HasAttr(s, o, ATTR_SURFACING_OBJECT) THEN Raise(s)
          ELSE LET s1 == SetAttrForce(s, o, ATTR_SURFACING_OBJECT, s.name[o])
                   s2 == StampMembers(s1, project, o, SetToSeq(s1.members[o]))
               IN StampObjects(s2, project, Tail(objs))

RECURSIVE StampProjects(_, _)
StampProjects(s, projects) ==
  IF projects = << >> THEN Ok(s, NoNode)
  ELSE LET p == Head(projects)
           s1 == SetAttrForce(s, p, ATTR_SURFACING_PROJECT, s.name[p])
           r == StampObjects(s1, p, SetToSeq(get_objects(s1, p)))
       IN IF ~r.ok THEN r ELSE StampProjects(r.s, Tail(projects))

update_mesh_attributes(s) == StampProjects(s, SetToSeq(get_projects(s)))

\* validate_scene with the attributes refreshed first
then_update_mesh_attributes(r) == IF r.ok THEN update_mesh_attributes(r.s) ELSE r

validate_scene_refresh_first(s) ==
  then_update_partition(
    then_remove_invalid_members(
      then_remove_invalid_characters(update_mesh_attributes(s))))

\* the four steps of validate_scene, in the order the code runs them
validate_scene(s) ==
  then_update_mesh_attributes(
    then_update_partition(
      then_remove_invalid_members(remove_invalid_characters(s))))

\* line 42 tests `root.members`, the bound method, without calling it: a
\* method object is truthy whatever the set holds
root_members(s, root) == TRUE

\* create_object(surfacing_project, "default_object"), p being the result of
\* create_project
then_default_object(p) ==
  IF p.ok THEN create_object(p.s, p.ret, STR_default_object) ELSE p

\* the `if not root.members:` statement, r being the result of
\* create_project_root
then_default_project(r) ==
  IF ~r.ok THEN r
  ELSE IF ~root_members(r.s, r.ret)
  THEN then_default_object(create_project(r.s, STR_project))
  ELSE r

then_validate_scene(r) == IF r.ok THEN validate_scene(r.s) ELSE r

surfacingInit(s) == then_validate_scene(then_default_project(create_project_root(s)))

\* ------------------------------------------------------------------ members
\* the other sets routed through a partition `obj` is routed through
SamePartition(s, obj) ==
  {o \in Node : o # obj /\ \E p \in Ls(s, "partition") :
      /\ \E i \in 1..Len(s.sets[p]) : s.sets[p][i] = obj
      /\ \E i \in 1..Len(s.sets[p]) : s.sets[p][i] = o}

\* pm.sets(surfacing_object, fe=...): forceElement adds the transform and takes
\* it out of the other sets of the partition
add_member(s, obj, t) ==
  Ok([s EXCEPT !.members = [n \in Node |->
        IF n = obj THEN s.members[n] \cup {t}
        ELSE IF n \in SamePartition(s, obj) THEN s.members[n] \ {t}
        ELSE s.members[n]]], NoNode)

\* ------------------------------------------------------------ merge, export
\* pm.polyUnite(*members, n=geo_name): a new mesh transform under the world;
\* the host raises unless every member is a mesh transform
polyUnite(s, ms, geo_name) ==
  IF \E m \in ms : ~(s.type[m] = "transform" /\ s.hasMesh[m]) THEN Raise(s)
  ELSE LET n == Min(Free(s, TransformIds))
           s1 == CreateNode(s, n, "transform", geo_name)
       IN Ok([s1 EXCEPT !.hasMesh[n] = TRUE], n)

\* members[0].rename(geo_name); pm.parent(members[0], world=True)
rename_to_world(s, m, geo_name) ==
  IF s.type[m] # "transform" THEN Raise([s EXCEPT !.name[m] = UniqueName(s, m, geo_name)])
  ELSE Ok([s EXCEPT !.name[m] = UniqueName(s, m, geo_name), !.inWorld[m] = TRUE], m)

\* merge_surfacing_object: whatever is raised inside is caught and the falsy
\* sentinel returned (NoNode)
merge_surfacing_object(s, surfacing_object) ==
  LET ms == s.members[surfacing_object]
      geo_name == s.name[surfacing_object] \o STR_geo
      r == IF Cardinality(ms) > 1 THEN polyUnite(s, ms, geo_name)
           ELSE IF ms = {} THEN Raise(s)
           ELSE rename_to_world(s, Min(ms), geo_name)
  IN IF r.ok THEN r ELSE Ok(r.s, NoNode)

\* the loop given up at the first object that does not merge
RECURSIVE MergeEachUntilFalsy(_, _, _)
MergeEachUntilFalsy(s, objs, geos) ==
  IF objs = << >> THEN [s |-> s, geos |-> geos]
  ELSE LET r == merge_surfacing_object(s, Head(objs))
       IN IF Truthy(r.s, r.ret)
          THEN MergeEachUntilFalsy(r.s, Tail(objs), Append(geos, r.ret))
          ELSE [s |-> r.s, geos |-> geos]

\* the loop of export_project over the project's objects: the scene the merges
\* leave and project_geo_list
RECURSIVE MergeEach(_, _, _)
MergeEach(s, objs, geos) ==
  IF objs = << >> THEN [s |-> s, geos |-> geos]
  ELSE LET r == merge_surfacing_object(s, Head(objs))
       IN MergeEach(r.s, Tail(objs),
                    IF Truthy(r.s, r.ret) THEN Append(geos, r.ret) ELSE geos)

\* abc_export(geo_list, file_path): one exporter command, when both are truthy
abc_export(s, geo_list, file_path) ==
  IF geo_list # << >> /\ file_path # << >>
  THEN << [roots |-> [i \in 1..Len(geo_list) |-> s.name[geo_list[i]]],
           file  |-> file_path] >>
  ELSE << >>

RECURSIVE ExportEach(_, _, _)
ExportEach(s, geos, dir) ==
  IF geos = << >> THEN << >>
  ELSE abc_export(s, <<Head(geos)>>, dir \o STR_slash \o s.name[Head(geos)] \o STR_abc)
         \o ExportEach(s, Tail(geos), dir)

\* check_scene_state: TRUE when it returns, FALSE when it raises ValueError
check_scene_state(unsaved, save) == ~unsaved \/ save

\* export_project making the objects' directory before it looks at the list
export_project_mkdir(s, project, single_export, folder_path, isdir, unsaved, save) ==
  IF single_export /\ ~check_scene_state(unsaved, save)
  THEN [s |-> s, ok |-> FALSE, cmds |-> << >>, dirs |-> {}]
  ELSE IF ~(isdir /\ is_project(s, project))
  THEN [s |-> s, ok |-> TRUE, cmds |-> << >>, dirs |-> {}]
  ELSE LET m == MergeEach(s, SetToSeq(get_objects(s, project)), << >>)
           export_file_path == folder_path \o STR_slash \o m.s.name[project] \o STR_abc
           export_dir == folder_path \o STR_slash \o m.s.name[project]
       IN [s    |-> IF single_export THEN s ELSE m.s,
           ok   |-> TRUE,
           cmds |-> abc_export(m.s, m.geos, export_file_path)
                      \o ExportEach(m.s, m.geos, export_dir),
           dirs |-> {export_dir}]

\* export_project: the scene left, the exporter commands issued and the
\* directories made.  With single_export the scene file is reopened at the
\* end, which puts back the scene the call started from.
export_project(s, project, single_export, folder_path, isdir, unsaved, save) ==
  IF single_export /\ ~check_scene_state(unsaved, save)
  THEN [s |-> s, ok |-> FALSE, cmds |-> << >>, dirs |-> {}]
  ELSE IF ~(isdir /\ is_project(s, project))
  THEN [s |-> s, ok |-> TRUE, cmds |-> << >>, dirs |-> {}]
  ELSE LET m == MergeEach(s, SetToSeq(get_objects(s, project)), << >>)
           export_file_path == folder_path \o STR_slash \o m.s.name[project] \o STR_abc
           export_dir == folder_path \o STR_slash \o m.s.name[project]
       IN [s    |-> IF single_export THEN s ELSE m.s,
           ok   |-> TRUE,
           cmds |-> IF m.geos = << >> THEN << >>
                    ELSE abc_export(m.s, m.geos, export_file_path)
                           \o ExportEach(m.s, m.geos, export_dir),
           dirs |-> IF m.geos = << >> THEN {} ELSE {export_dir}]

\* --------------------------------------------------------------- textures
STR_surfProj == <<"s","u","r","f","P","r","o","j","_">>
STR_file == <<"_","f","i","l","e">>
STR_rgb == <<"r","g","b">>
STR_sRGB == <<"s","R","G","B">>
STR_raw == <<"R","a","w">>
KEY == "maya_prj"

\* str.lower(), over the letters the colour spaces are written with
LowerChar(c) ==
  CASE c = "R" -> "r" [] c = "G" -> "g" [] c = "B" -> "b" [] OTHER -> c
Lower(str) == [i \in 1..Len(str) |-> LowerChar(str[i])]

\* sub in str
In(sub, str) ==
  \E i \in 1..(Len(str) - Len(sub) + 1) : SubSeq(str, i, i + Len(sub) - 1) = sub

\* the outputs of a file node that the host lets into the plug of a shader:
\* a colour plug takes outColor, a float plug outAlpha, a plug the shader does
\* not have takes nothing
PlugAccepts(plug) ==
  CASE plug = "diffuseColor" -> {"outColor"}
    [] plug = "presence" -> {"outAlpha"}
    [] OTHER -> {}

\* the shading network: the file nodes made and the connections into shaders
NoTextures == [fileNodes |-> << >>, connections |-> {}]
\* what a call of import_textures did: the records its loop reached and the
\* connections it attempted, in order
NoTrace == [visited |-> << >>, attempts |-> << >>]

\* materials.create_file_node(name=...), then fileTextureName, uvTilingMode
\* and colorSpace set on it
create_file_node(n, parsed_file, key) ==
  [n EXCEPT !.fileNodes =
     Append(@, [name |-> STR_surfProj \o parsed_file[key] \o STR_file,
                fileTextureName |-> parsed_file.filepath,
                uvTilingMode |-> 3,
                colorSpace |-> IF In(STR_rgb, Lower(parsed_file.colorspace))
                               THEN "sRGB" ELSE "default"])]

\* file_node.<out>.connect('%s.%s' % (shaders[parsed_file[key]], shader_plug))
\* succeeds when the shader is in the mapping, the plug takes the output and
\* nothing is connected into the plug yet
CanConnect(n, out, parsed_file, key, shaders) ==
  /\ parsed_file[key] \in DOMAIN shaders
  /\ out \in PlugAccepts(parsed_file.shader_plug)
  /\ ~\E c \in n.connections :
        /\ c.shader = shaders[parsed_file[key]]
        /\ c.plug = parsed_file.shader_plug

\* one try/except around a connect: the attempt is recorded, a failure is
\* swallowed; r is <<network, trace>>
try_connect(r, i, out, parsed_file, key, shaders) ==
  LET ok == CanConnect(r[1], out, parsed_file, key, shaders)
  IN <<IF ok
       THEN [r[1] EXCEPT !.connections =
               @ \cup {[file |-> Len(r[1].fileNodes), out |-> out,
                        shader |-> shaders[parsed_file[key]],
                        plug |-> parsed_file.shader_plug]}]
       ELSE r[1],
       [r[2] EXCEPT !.attempts = Append(@, [file |-> i, out |-> out, ok |-> ok])]>>

\* the body of the loop for the i-th parsed file
import_texture(r, i, parsed_file, key, shaders) ==
  LET seen == <<r[1], [r[2] EXCEPT !.visited = Append(@, i)]>>
  IN IF parsed_file[key] # << >> /\ parsed_file.shader_plug # ""
     THEN try_connect(
            try_connect(<<create_file_node(seen[1], parsed_file, key), seen[2]>>,
                        i, "outColor", parsed_file, key, shaders),
            i, "outAlpha", parsed_file, key, shaders)
     ELSE seen

RECURSIVE ImportEach(_, _, _, _, _)
ImportEach(r, i, parsed_files, key, shaders) ==
  IF i > Len(parsed_files) THEN r
  ELSE ImportEach(import_texture(r, i, parsed_files[i], key, shaders),
                  i + 1, parsed_files, key, shaders)

import_textures(n, parsed_files, key, shaders) ==
  ImportEach(<<n, NoTrace>>, 1, parsed_files, key, shaders)

\* ------------------------------------------------------------------- state
VARIABLES
  nodeType,   \* node -> "none" | "objectSet" | "transform" | "partition"
  nodeName,   \* node -> its name
  attrs,      \* node -> the custom attributes it has
  vals,       \* node -> the value of each
  members,    \* set node -> its members
  sets,       \* partition node -> the sources connected to its .sets plug
  hasMesh,    \* transform -> it has a mesh shape
  inWorld,    \* transform -> it is a child of the world
  pc,         \* where create_project stands
  cur,        \* the project create_project is building
  raised,     \* the last call raised
  call,       \* the last call: its name and, of a merge or export, what it was
              \* given and returned
  abcCmds,    \* the exporter commands the last call issued
  dirs,       \* the directories the last call made
  initRuns,   \* completed runs of surfacingInit (2: two or more)
  deletes,    \* calls of delete_project so far
  fileNodes,  \* the file nodes of the scene, in the order they were made
  connections, \* the connections from file nodes into shader plugs
  parsed_files, \* the records the last import_textures was given
  shaders,    \* the shader mapping it was given
  visited,    \* the records its loop reached
  attempts    \* the connections it attempted, in order

scene == <<nodeType, nodeName, attrs, vals, members, sets, hasMesh, inWorld>>
vars == <<nodeType, nodeName, attrs, vals, members, sets, hasMesh, inWorld,
          pc, cur, raised, call, abcCmds, dirs, initRuns, deletes,
          fileNodes, connections, parsed_files, shaders, visited, attempts>>
textures == <<fileNodes, connections, parsed_files, shaders, visited, attempts>>

Scene ==
  [type |-> nodeType, name |-> nodeName, attrs |-> attrs, vals |-> vals,
   members |-> members, sets |-> sets, hasMesh |-> hasMesh, inWorld |-> inWorld]

Install(s) ==
  /\ nodeType' = s.type
  /\ nodeName' = s.name
  /\ attrs' = s.attrs
  /\ vals' = s.vals
  /\ members' = s.members
  /\ sets' = s.sets
  /\ hasMesh' = s.hasMesh
  /\ inWorld' = s.inWorld

\* a free handle of the kind is left
Room(ids) == Free(Scene, ids) # {}

NoCall ==
  [op |-> "none", arg |-> NoNode, ret |-> NoNode,
   single_export |-> FALSE, isdir |-> FALSE, unsaved |-> FALSE, save |-> FALSE]

\* a whole call of `op` that is neither a merge nor an export
Call(op, r) ==
  /\ Install(r.s)
  /\ raised' = ~r.ok
  /\ call' = [NoCall EXCEPT !.op = op]
  /\ abcCmds' = << >>
  /\ dirs' = {}
  /\ UNCHANGED <<pc, cur>>

StartWith(s) ==
  /\ nodeType = s.type /\ nodeName = s.name /\ attrs = s.attrs /\ vals = s.vals
  /\ members = s.members /\ sets = s.sets
  /\ hasMesh = s.hasMesh /\ inWorld = s.inWorld
  /\ pc = "idle" /\ cur = NoNode
  /\ raised = FALSE /\ call = NoCall
  /\ abcCmds = << >> /\ dirs = {} /\ initRuns = 0 /\ deletes = 0
  /\ fileNodes = << >> /\ connections = {}
  /\ parsed_files = << >> /\ shaders = << >>
  /\ visited = << >> /\ attempts = << >>

\* a new scene
Init == StartWith(EmptyScene)

\* a new scene, or one that already holds its root
InitRooted ==
  \E s \in {EmptyScene, create_project_root_node(EmptyScene).s} : StartWith(s)

\* ------------------------------------------------------------------ inputs
NAME_a_b_ == <<"a","_","b","_">>
NAME_underscore == <<"_">>
NAME_m == <<"m">>
FOLDER == <<"d">>

\* << >> stands for name=None
DefaultName == {<< >>}
ProjectNames == {<< >>, NAME_a_b_}
ObjectNames == {NAME_a_b_, NAME_underscore}
\* transforms to make: <<name, has a mesh, child of the world>>
MeshOrNot == {<<NAME_m, TRUE, TRUE>>, <<NAME_m, FALSE, TRUE>>}
Meshes ==
  {<<NAME_m, TRUE, FALSE>>, <<NAME_m, FALSE, TRUE>>, <<STR_object \o STR_geo, TRUE, TRUE>>}

\* parsed files: with and without a grouping key, with a colour plug, a float
\* plug, a plug the shader does not have and no plug
PRJ == <<"p">>
FILEPATH == <<"t">>
ParsedFile(prj, shader_plug, colorspace) ==
  [maya_prj |-> prj, shader_plug |-> shader_plug, colorspace |-> colorspace,
   filepath |-> FILEPATH]
ParsedFiles ==
  {ParsedFile(<< >>, "diffuseColor", STR_sRGB),
   ParsedFile(PRJ, "", STR_raw),
   ParsedFile(PRJ, "diffuseColor", STR_sRGB),
   ParsedFile(PRJ, "presence", STR_raw),
   ParsedFile(PRJ, "bogus", STR_raw)}
ParsedFileLists == UNION {[1..n -> ParsedFiles] : n \in 0..MaxFiles}
\* the mapping create_surfacing_shaders returns, or one without the key
ShaderMaps == {[k \in d |-> "PxrSurface1"] : d \in SUBSET {PRJ}}

\* ------------------------------------------------------------------ actions
SurfacingInit ==
  /\ pc = "idle"
  /\ LET r == surfacingInit(Scene)
     IN /\ Call("surfacingInit", r)
        /\ initRuns' = IF r.ok THEN (IF initRuns = 0 THEN 1 ELSE 2) ELSE initRuns
        /\ UNCHANGED <<deletes, textures>>

CreateProjectRootNode ==
  /\ pc = "idle"
  /\ Room(RootIds)
  /\ Call("create_project_root_node", create_project_root_node(Scene))
  /\ UNCHANGED <<initRuns, deletes, textures>>

CreateProjectRoot ==
  /\ pc = "idle"
  /\ Call("create_project_root", create_project_root(Scene))
  /\ UNCHANGED <<initRuns, deletes, textures>>

GetProjectRoot ==
  /\ pc = "idle"
  /\ Call("get_project_root", get_project_root(Scene))
  /\ UNCHANGED <<initRuns, deletes, textures>>

\* create_project(name), host call by host call
CreateProjectNode(names) ==
  /\ pc = "idle"
  /\ Room(ProjectIds)
  /\ Room(ObjectIds)
  /\ \E nm \in names :
       LET r == cp_node(Scene, nm)
       IN /\ Install(r.s)
          /\ cur' = r.ret
  /\ pc' = "cp_node"
  /\ raised' = FALSE
  /\ call' = [NoCall EXCEPT !.op = "create_project"]
  /\ abcCmds' = << >>
  /\ dirs' = {}
  /\ UNCHANGED <<initRuns, deletes, textures>>

CreateProjectObject ==
  /\ pc = "cp_node"
  /\ Install(cp_object(Scene, cur).s)
  /\ pc' = "cp_object"
  /\ UNCHANGED <<cur, raised, call, abcCmds, dirs, initRuns, deletes, textures>>

CreateProjectAddToRoot ==
  /\ pc = "cp_object"
  /\ LET r == cp_root(Scene, cur)
     IN /\ Install(r.s)
        /\ IF r.ok
           THEN /\ pc' = "cp_root"
                /\ UNCHANGED <<cur, raised, call, abcCmds, dirs>>
           ELSE /\ pc' = "idle"
                /\ cur' = NoNode
                /\ raised' = TRUE
                /\ UNCHANGED <<call, abcCmds, dirs>>
  /\ UNCHANGED <<initRuns, deletes, textures>>

CreateProjectPartition ==
  /\ pc = "cp_root"
  /\ LET r == cp_partition(Scene, cur)
     IN /\ Install(r.s)
        /\ raised' = ~r.ok
  /\ pc' = "idle"
  /\ cur' = NoNode
  /\ UNCHANGED <<call, abcCmds, dirs, initRuns, deletes, textures>>

CreateObject(names) ==
  /\ pc = "idle"
  /\ Room(ObjectIds)
  /\ \E project \in get_projects(Scene), nm \in names :
       Call("create_object", create_object(Scene, project, nm))
  /\ UNCHANGED <<initRuns, deletes, textures>>

DeleteProject ==
  /\ pc = "idle"
  /\ deletes < MaxDeletes
  /\ \E project \in get_projects(Scene) : Call("delete_project", delete_project(Scene, project))
  /\ deletes' = deletes + 1
  /\ UNCHANGED <<initRuns, textures>>

UpdatePartition ==
  /\ pc = "idle"
  /\ Call("update_partition", update_partition(Scene))
  /\ UNCHANGED <<initRuns, deletes, textures>>

RemoveInvalidMembers ==
  /\ pc = "idle"
  /\ Call("remove_invalid_members", remove_invalid_members(Scene))
  /\ UNCHANGED <<initRuns, deletes, textures>>

RemoveInvalidCharacters ==
  /\ pc = "idle"
  /\ Call("remove_invalid_characters", remove_invalid_characters(Scene))
  /\ UNCHANGED <<initRuns, deletes, textures>>

ValidateScene ==
  /\ pc = "idle"
  /\ Call("validate_scene", validate_scene(Scene))
  /\ UNCHANGED <<initRuns, deletes, textures>>

\* the sets routed through the marked partition
Routed(s) ==
  {o \in Node : \E p \in MarkedPartitions(s) :
     \E i \in 1..Len(s.sets[p]) : s.sets[p][i] = o}

\* add_member(surfacing_object, transform) on an object of the partition
AddMember ==
  /\ pc = "idle"
  /\ \E obj \in Routed(Scene), t \in Ls(Scene, "transform") :
       /\ is_surfacing_object(Scene, obj)
       /\ t \notin members[obj]
       /\ Call("add_member", add_member(Scene, obj, t))
  /\ UNCHANGED <<initRuns, deletes, textures>>

\* the artist makes a transform, with or without a mesh, under the world or
\* under a group
PolyCube(kinds) ==
  /\ pc = "idle"
  /\ Cardinality(Ls(Scene, "transform")) < MaxTransforms
  /\ \E k \in kinds :
       LET n == Min(Free(Scene, TransformIds))
           s1 == CreateNode(Scene, n, "transform", k[1])
       IN Call("polyCube", Ok([s1 EXCEPT !.hasMesh[n] = k[2], !.inWorld[n] = k[3]], n))
  /\ UNCHANGED <<initRuns, deletes, textures>>

\* a scene import brings in one more marked partition
ImportPartition ==
  /\ pc = "idle"
  /\ Room(PartitionIds)
  /\ LET n == Min(Free(Scene, PartitionIds))
         s1 == CreateNode(Scene, n, "partition", STR_partition)
     IN Call("import", Ok(SetAttrForce(s1, n, ATTR_SURFACING_PARTITION, STR_empty), n))
  /\ UNCHANGED <<initRuns, deletes, textures>>

MergeSurfacingObject ==
  /\ pc = "idle"
  /\ Room(TransformIds)
  /\ \E obj \in Node :
       /\ is_surfacing_object(Scene, obj)
       /\ LET r == merge_surfacing_object(Scene, obj)
          IN /\ Install(r.s)
             /\ raised' = ~r.ok
             /\ call' = [NoCall EXCEPT !.op = "merge_surfacing_object",
                                       !.arg = obj, !.ret = r.ret]
  /\ abcCmds' = << >>
  /\ dirs' = {}
  /\ UNCHANGED <<pc, cur, initRuns, deletes, textures>>

ExportProject ==
  /\ pc = "idle"
  /\ \E project \in get_projects(Scene), single_export \in BOOLEAN,
        isdir \in BOOLEAN, unsaved \in BOOLEAN, save \in BOOLEAN :
       \* the dialog is asked only about an unsaved scene of a single export
       /\ save => unsaved
       /\ unsaved => single_export
       /\ Cardinality(Free(Scene, TransformIds)) >=
            Cardinality({o \in get_objects(Scene, project) :
                           Cardinality(members[o]) > 1})
       /\ LET r == export_project(Scene, project, single_export, FOLDER,
                                  isdir, unsaved, save)
          IN /\ Install(r.s)
             /\ raised' = ~r.ok
             /\ call' = [op |-> "export_project", arg |-> project, ret |-> NoNode,
                         single_export |-> single_export, isdir |-> isdir,
                         unsaved |-> unsaved, save |-> save]
             /\ abcCmds' = r.cmds
             /\ dirs' = r.dirs
  /\ UNCHANGED <<pc, cur, initRuns, deletes, textures>>

\* --------------------------------------------------------- specifications
\* create_project as its four steps
CreateProject(names) ==
  \/ CreateProjectNode(names)
  \/ CreateProjectObject
  \/ CreateProjectAddToRoot
  \/ CreateProjectPartition

\* the files of a list that get a file node
WithFileNode(files, key) ==
  {i \in 1..Len(files) : files[i][key] # << >> /\ files[i].shader_plug # ""}

ImportTextures ==
  /\ pc = "idle"
  /\ \E files \in ParsedFileLists, sh \in ShaderMaps :
       /\ Len(fileNodes) + Cardinality(WithFileNode(files, KEY)) <= MaxFileNodes
       /\ LET r == import_textures(
                     [fileNodes |-> fileNodes, connections |-> connections],
                     files, KEY, sh)
          IN /\ fileNodes' = r[1].fileNodes
             /\ connections' = r[1].connections
             /\ visited' = r[2].visited
             /\ attempts' = r[2].attempts
             /\ parsed_files' = files
             /\ shaders' = sh
  /\ raised' = FALSE
  /\ call' = [NoCall EXCEPT !.op = "import_textures"]
  /\ abcCmds' = << >>
  /\ dirs' = {}
  /\ UNCHANGED <<scene, pc, cur, initRuns, deletes>>

\* the root and everything that resolves it, from a new scene
Next ==
  \/ SurfacingInit
  \/ CreateProjectRootNode
  \/ CreateProjectRoot
  \/ GetProjectRoot
  \/ CreateProject(ProjectNames)
  \/ CreateObject(ObjectNames)
  \/ RemoveInvalidMembers
  \/ RemoveInvalidCharacters
  \/ ValidateScene

Spec == Init /\ [][Next]_vars

\* projects and objects made and deleted in a scene with at most one root
NextRooted ==
  \/ SurfacingInit
  \/ CreateProjectRoot
  \/ GetProjectRoot
  \/ CreateProject(ProjectNames)
  \/ CreateObject(ObjectNames)
  \/ DeleteProject
  \/ RemoveInvalidMembers
  \/ ValidateScene

SpecRooted == InitRooted /\ [][NextRooted]_vars

\* the partition rebuilt over any number of projects, objects and partitions
NextPartition ==
  \/ CreateProject(ProjectNames)
  \/ CreateObject(ObjectNames)
  \/ DeleteProject
  \/ ImportPartition
  \/ ValidateScene
  \/ UpdatePartition

SpecPartition == Init /\ [][NextPartition]_vars

\* names, members and attributes put in order by validate_scene
NextValidate ==
  \/ CreateProject(ProjectNames)
  \/ CreateObject(ObjectNames)
  \/ PolyCube(MeshOrNot)
  \/ AddMember
  \/ RemoveInvalidCharacters
  \/ ValidateScene

SpecValidate == Init /\ [][NextValidate]_vars

\* merging and exporting
NextExport ==
  \/ CreateProject(DefaultName)
  \/ CreateObject(DefaultName)
  \/ PolyCube(Meshes)
  \/ AddMember
  \/ UpdatePartition
  \/ MergeSurfacingObject
  \/ ExportProject

SpecExport == Init /\ [][NextExport]_vars

\* textures imported, call after call, into one shading network
NextTextures ==
  \/ ImportTextures

SpecTextures == Init /\ [][NextTextures]_vars

\* ------------------------------------------------------------------ the root
\* C1: from a scene with no root or exactly one, once surfacingInit has run at
\* least once, whatever calls of create_project_root and get_project_root (and
\* of the other operations) come before, between or after the runs, exactly
\* one node carries the root marker.
C1_OneRootAfterInit == initRuns >= 1 => Cardinality(Roots(Scene)) = 1

\* surfacingInit has run more than once and the one root is there
C1_Witness ==
  /\ initRuns = 2
  /\ ~raised
  /\ Cardinality(Roots(Scene)) = 1

\* ------------------------------------------------------- the set hierarchy
InRoot(p) == \E r \in Roots(Scene) : p \in members[r]
ProjectsOf(o) == {p \in get_projects(Scene) : o \in members[p]}

BeingBuilt(p) == pc \in {"cp_node", "cp_object"} /\ p = cur

Connections(s, p, o) == Cardinality({i \in 1..Len(s.sets[p]) : s.sets[p][i] = o})

\* one marked partition, one connection from each object, none from anything else
OnePartition(s) ==
  /\ Cardinality(MarkedPartitions(s)) = 1
  /\ \A p \in MarkedPartitions(s) :
       /\ \A o \in Objects(s) : Connections(s, p, o) = 1
       /\ \A i \in 1..Len(s.sets[p]) : s.sets[p][i] \in Objects(s)

\* the connections of the marked partitions, whatever node holds them
ConnectionSets(s) == {s.sets[p] : p \in MarkedPartitions(s)}

\* C3: whenever update_partition completes, from zero, one or several marked
\* partitions and any projects and objects, exactly one marked partition is
\* left, with exactly one connection from each object and no other; a second
\* run would leave the same count and the same connections.
C3_UpdatePartition ==
  (call.op = "update_partition" /\ ~raised) =>
    /\ OnePartition(Scene)
    /\ LET again == update_partition(Scene).s
       IN /\ Cardinality(MarkedPartitions(again)) = Cardinality(MarkedPartitions(Scene))
          /\ ConnectionSets(again) = ConnectionSets(Scene)

\* update_partition has run over two objects and left them both connected
\* to the one partition
C3_Witness ==
  /\ call.op = "update_partition"
  /\ ~raised
  /\ Cardinality(MarkedPartitions(Scene)) = 1
  /\ Cardinality(Objects(Scene)) >= 2
  /\ \A p \in MarkedPartitions(Scene) : Len(sets[p]) = Cardinality(Objects(Scene))

\* --------------------------------------------------------- several roots
SeveralRoots == Cardinality(Roots(Scene)) > 1

\* the calls that resolve the root and do nothing before
ResolvesRoot ==
  \/ CreateProjectRoot
  \/ RemoveInvalidMembers
  \/ RemoveInvalidCharacters
  \/ SurfacingInit
  \/ ValidateScene

\* C8: with more than one root, get_project_root raises and leaves the scene
\* as it was; create_project_root, remove_invalid_members,
\* remove_invalid_characters, surfacingInit and validate_scene raise the same
\* way and change nothing; create_project stops with the error at the step
\* that resolves the root, and no root gets the project.
C8_SeveralRootsRaise ==
  [][SeveralRoots =>
       /\ (GetProjectRoot \/ ResolvesRoot) => (raised' /\ UNCHANGED scene)
       /\ CreateProjectAddToRoot =>
            /\ raised'
            /\ pc' = "idle"
            /\ \A r \in Roots(Scene) : members'[r] = members[r]
            /\ Roots(Scene') = Roots(Scene)]_vars

\* two roots, and a project that create_project left outside both
C8_Witness ==
  /\ SeveralRoots
  /\ raised
  /\ pc = "idle"
  /\ \E p \in get_projects(Scene) : \A r \in Roots(Scene) : p \notin members[r]

\* ------------------------------------------------------------------- names
NoInvalidCharacter(s) ==
  \A n \in get_projects(s) \cup Objects(s) : ~Contains(s.name[n], invalid_character)

\* C4: when remove_invalid_characters completes, no project name and no
\* object name holds a '_', wherever and however often it stood in the name,
\* and a second run would change no name.
C4_RemoveInvalidCharacters ==
  (call.op = "remove_invalid_characters" /\ ~raised) =>
    /\ NoInvalidCharacter(Scene)
    /\ LET again == remove_invalid_characters(Scene)
       IN again.ok /\ again.s.name = nodeName

NAME_ab == <<"a", "b">>

\* an object made as 'a_b_' is named 'ab', and no name holds a '_'
C4_Witness ==
  /\ call.op = "remove_invalid_characters"
  /\ ~raised
  /\ NoInvalidCharacter(Scene)
  /\ \E o \in Objects(Scene) : nodeName[o] = NAME_ab

\* ------------------------------------------------------------ validation
\* every member of every object carries the names of its project and object,
\* and every project and object its own
AttributesCurrent(s) ==
  \A p \in get_projects(s) :
    /\ HasAttr(s, p, ATTR_SURFACING_PROJECT)
    /\ GetAttr(s, p, ATTR_SURFACING_PROJECT) = s.name[p]
    /\ \A o \in s.members[p] :
         /\ HasAttr(s, o, ATTR_SURFACING_OBJECT)
         /\ GetAttr(s, o, ATTR_SURFACING_OBJECT) = s.name[o]
         /\ \A m \in s.members[o] :
              /\ HasAttr(s, m, ATTR_SURFACING_PROJECT)
              /\ GetAttr(s, m, ATTR_SURFACING_PROJECT) = s.name[p]
              /\ HasAttr(s, m, ATTR_SURFACING_OBJECT)
              /\ GetAttr(s, m, ATTR_SURFACING_OBJECT) = s.name[o]

\* the members the pruning step keeps: transforms with a mesh
ValidMembers(s) ==
  \A o \in Objects(s) : \A m \in s.members[o] : s.type[m] = "transform" /\ s.hasMesh[m]

\* C10: validate_scene normalizes the names, prunes the members, rebuilds the
\* partition and refreshes the attributes, in that order: when it completes,
\* the names hold no '_', the members left are mesh transforms, one partition
\* connects the objects, and the attributes of every member, object and
\* project equal the names as they are now.
C10_ValidateScene ==
  (call.op = "validate_scene" /\ ~raised) =>
    /\ NoInvalidCharacter(Scene)
    /\ ValidMembers(Scene)
    /\ OnePartition(Scene)
    /\ AttributesCurrent(Scene)

\* a member of the object made as 'a_b_' carries the normalized name 'ab'
C10_Witness ==
  /\ call.op = "validate_scene"
  /\ ~raised
  /\ \E o \in Objects(Scene) :
       /\ nodeName[o] = NAME_ab
       /\ \E m \in members[o] :
            /\ HasAttr(Scene, m, ATTR_SURFACING_OBJECT)
            /\ GetAttr(Scene, m, ATTR_SURFACING_OBJECT) = NAME_ab

\* ----------------------------------------------------------- surfacingInit
RootEmpty(s) == \A r \in Roots(s) : s.members[r] = {}

NamedFrom(nm, base) ==
  ReplaceAll(StripDigits(nm), invalid_character) = ReplaceAll(base, invalid_character)

\* C7 as stated: surfacingInit on a scene whose root has no members, or that
\* has no root, leaves a project in the root with an object named from
\* 'default_object'; on a scene whose root has members it makes no project.
C7_Original ==
  [][(SurfacingInit /\ ~raised') =>
       IF RootEmpty(Scene)
       THEN \E p \in get_projects(Scene') :
              /\ \E r \in Roots(Scene') : p \in members'[r]
              /\ \E o \in members'[p] :
                   /\ is_surfacing_object(Scene', o)
                   /\ NamedFrom(nodeName'[o], STR_default_object)
       ELSE get_projects(Scene') = get_projects(Scene)]_vars

\* ------------------------------------------------------------------- merge
MeshTransform(s, m) == s.type[m] = "transform" /\ s.hasMesh[m]

\* C5 as stated: merge_surfacing_object on an object with more than one
\* member, all of them meshes, returns a new mesh named '<object>_geo'; on an
\* object with one member it returns that member, renamed '<object>_geo' and
\* under the world.
C5_Original ==
  [][MergeSurfacingObject =>
       LET obj == call'.arg
           ret == call'.ret
           N == Cardinality(members[obj])
           geo_name == nodeName[obj] \o STR_geo
       IN (\A m \in members[obj] : MeshTransform(Scene, m)) =>
            /\ N > 1 =>
                 /\ ret \in Node
                 /\ ~Exists(Scene, ret)
                 /\ MeshTransform(Scene', ret)
                 /\ nodeName'[ret] = geo_name
            /\ N = 1 =>
                 /\ ret \in members[obj]
                 /\ inWorld'[ret]
                 /\ nodeName'[ret] = geo_name]_vars

\* ------------------------------------------------------------------ export
\* the objects merge_surfacing_object gets a node from: one member, a
\* transform, or several members, all of them meshes
Mergeable(s, o) ==
  \/ Cardinality(s.members[o]) = 1 /\ \A m \in s.members[o] : s.type[m] = "transform"
  \/ Cardinality(s.members[o]) > 1 /\ \A m \in s.members[o] : MeshTransform(s, m)

MergeableObjects(s, project) == {o \in get_objects(s, project) : Mergeable(s, o)}

\* (merging changes no membership and no type, and an export no object or
\* project name: what was mergeable before the call is mergeable after it)

\* C6 as stated: export_project on a project none of whose objects merges
\* issues no command, makes no directory and does not raise, whether
\* single_export is True or False.
C6_Original ==
  (call.op = "export_project" /\ MergeableObjects(Scene, call.arg) = {}) =>
    /\ abcCmds = << >>
    /\ dirs = {}
    /\ ~raised

\* C6 amended: export_project on a project none of whose objects merges
\* issues no command and makes no directory, whether single_export is True or
\* False; it returns without raising unless single_export is True, the scene
\* has unsaved changes and the artist declines to save, when
\* check_scene_state raises ValueError before anything else is done.
C6_NothingToExport ==
  (call.op = "export_project" /\ MergeableObjects(Scene, call.arg) = {}) =>
    /\ abcCmds = << >>
    /\ dirs = {}
    /\ raised <=> (call.single_export /\ call.unsaved /\ ~call.save)

\* an export into a directory, of a project whose only objects have no
\* member or unmergeable ones, that returned
C6_Witness ==
  /\ call.op = "export_project"
  /\ call.isdir
  /\ ~raised
  /\ get_objects(Scene, call.arg) # {}
  /\ MergeableObjects(Scene, call.arg) = {}
  /\ abcCmds = << >>

Roots1(cmds) == {cmds[1].roots[i] : i \in 1..Len(cmds[1].roots)}

\* C9: export_project into a directory, of a project k >= 1 of whose objects
\* merge, issues k+1 commands: the first writes '<folder>/<project>.abc' with
\* the k merged meshes as roots, each of the next k writes one of them, alone,
\* to '<folder>/<project>/<mesh>.abc'; every root is named after an object
\* that merged, none after an object that did not, and (the scene not being
\* reopened) names a node under the world.
C9_ExportCommands ==
  (call.op = "export_project" /\ ~raised /\ call.isdir
     /\ MergeableObjects(Scene, call.arg) # {}) =>
    LET project == call.arg
        merged == MergeableObjects(Scene, project)
        k == Cardinality(merged)
        dir == FOLDER \o STR_slash \o nodeName[project]
    IN /\ Len(abcCmds) = k + 1
       /\ abcCmds[1].file = dir \o STR_abc
       /\ Len(abcCmds[1].roots) = k
       /\ Cardinality(Roots1(abcCmds)) = k
       /\ \A i \in 1..k :
            /\ abcCmds[i + 1].roots = <<abcCmds[1].roots[i]>>
            /\ abcCmds[i + 1].file = dir \o STR_slash \o abcCmds[1].roots[i] \o STR_abc
       /\ \A o \in merged :
            \E g \in Roots1(abcCmds) : StripDigits(g) = nodeName[o] \o STR_geo
       /\ \A o \in get_objects(Scene, project) \ merged :
            \A g \in Roots1(abcCmds) : StripDigits(g) # nodeName[o] \o STR_geo
       /\ ~call.single_export =>
            \A g \in Roots1(abcCmds) :
              \E n \in Ls(Scene, "transform") : nodeName[n] = g /\ inWorld[n]
       /\ dirs = {dir}

\* an export that wrote the project and one object, and passed over an
\* object with nothing to merge
C9_Witness ==
  /\ call.op = "export_project"
  /\ ~raised
  /\ Len(abcCmds) = 2
  /\ \E o \in get_objects(Scene, call.arg) : members[o] = {}

\* ---------------------------------------------------------------- textures
\* the records import_textures connects: a grouping key and a shader plug
Connectable(i) ==
  /\ parsed_files[i][KEY] # << >>
  /\ parsed_files[i].shader_plug # ""

\* the places in the attempts of the last call where output `out` of the i-th
\* record was tried
Tries(i, out) ==
  {a \in 1..Len(attempts) : attempts[a].file = i /\ attempts[a].out = out}

\* output-color is tried, once, before any output-alpha
ColorFirst(i) ==
  /\ Cardinality(Tries(i, "outColor")) = 1
  /\ \A c \in Tries(i, "outColor"), a \in Tries(i, "outAlpha") : c < a

\* output-alpha is tried only after an output-color that failed
AlphaOnlyAfterFailure(i) ==
  Tries(i, "outAlpha") # {} =>
    \E c \in Tries(i, "outColor") : ~attempts[c].ok

\* no failure ends the call: the loop reaches every record, in order
Swallowed ==
  /\ ~raised
  /\ visited = [i \in 1..Len(parsed_files) |-> i]

\* C11 as stated: for every record with a non-empty grouping key and a
\* non-empty shader plug, import_textures tries output-color first and tries
\* output-alpha only if that attempt failed; a failure of either attempt is
\* swallowed and the remaining records are still processed.  The code tries
\* output-alpha after every output-color, whether it failed or not.
C11_Original ==
  call.op = "import_textures" =>
    /\ Swallowed
    /\ \A i \in 1..Len(parsed_files) :
          Connectable(i) => ColorFirst(i) /\ AlphaOnlyAfterFailure(i)

\* what the code does: both outputs are tried for every such record, in that
\* order, and no failure ends the call
BothTried ==
  call.op = "import_textures" =>
    /\ Swallowed
    /\ \A i \in 1..Len(parsed_files) :
          Connectable(i) =>
            /\ ColorFirst(i)
            /\ Cardinality(Tries(i, "outAlpha")) = 1

\* in this host the second try after a successful first one never connects:
\* a record ends with at most one connection
OneConnection ==
  \A f \in 1..Len(fileNodes) :
    Cardinality({c \in connections : c.file = f}) <= 1

\* an output-alpha tried after an output-color that connected
AlphaAfterSuccess ==
  /\ call.op = "import_textures"
  /\ \E i \in 1..Len(parsed_files) :
        /\ Connectable(i)
        /\ \E c \in Tries(i, "outColor") : attempts[c].ok
        /\ Tries(i, "outAlpha") # {}

====
